---- MODULE Spec2Model ----
(***************************************************************************)
(* Lifetime and callback wiring of cacao's Stepper (src/stepper/mod.rs),   *)
(* the facade over AppKit's NSStepper.                                     *)
(*                                                                         *)
(* One Stepper is followed from before Stepper::new to after its Drop.     *)
(* Every native message send of the facade is one step, so the order of    *)
(* the sends inside new, set_action and drop is visible.  The program runs *)
(* on the single UI thread: an operation starts only when no other one is  *)
(* in progress (pc = "idle"), and the native control dispatches an event   *)
(* only between operations.                                                *)
(*                                                                         *)
(* References are sets: the empty set is a null reference (nil, None), a   *)
(* singleton is a reference to its element.  Trampolines are numbered from *)
(* 1; {0} is a reference to an object that is no trampoline of the         *)
(* Stepper.                                                                *)
(***************************************************************************)
EXTENDS Integers, FiniteSets, Sequences, TLC

\* ------------------------------------------------------------------ bounds

\* Number of trampolines that may be allocated, i.e. of set_action calls.
MaxTramp == 2

\* Number of messages callers' closures send to the native object over the
\* life of the Stepper.
MaxClosureSends == 2

\* ------------------------------------------------------- program constants

\* Objective-C BOOL values (crate::foundation::{YES, NO}).
YES == 1
NO == 0

\* nil / None: the null reference.
Nil == {}

\* sel!(perform:), the action a trampoline is wired with.
Perform == {"perform:"}

\* Rect::zero().into(): the frame handed to initWithFrame:.
RectZero == [x |-> 0, y |-> 0, w |-> 0, h |-> 0]

\* A frame and an action selector that only a caller's closure sets.
RectOther == [x |-> 1, y |-> 2, w |-> 30, h |-> 40]
Other == {"other:"}

\* The f64 argument of the setters and of the closures' messages: the spec's
\* representative 100.0, which lies above the default maximum of 59, so that
\* a local validation or clamping would show.
Values == {100}

\* The children handed to add_subview, and the two implementations of the
\* Layout and ObjcAccess traits.
Children == {"view", "stepper"}
Variants == {"Stepper", "&Stepper"}

\* The properties a caller's closure reads.
ClosureReads == {"floatValue", "target"}

Tramps == 1..MaxTramp

\* The native object as -[NSStepper initWithFrame:] leaves it.
NativeInit(frame) ==
    [frame |-> frame, translates |-> YES,
     maxValue |-> 59, minValue |-> 0, increment |-> 1, valueWraps |-> YES,
     value |-> 0, target |-> Nil, action |-> Nil]

NoSend == [sel |-> "none", arg |-> Nil, section |-> "none", mutating |-> FALSE]
NoOp == [op |-> "none", arg |-> Nil, res |-> "none"]

VARIABLES
    pc,          \* position of the UI thread in the facade's code
    autolayout,  \* cfg(feature = "autolayout")
    view,        \* Stepper::new's local `view`: what alloc/initWithFrame: gave
    native,      \* the NSStepper's properties (as initialised while there is
                 \* no object)
    nativeAlive, \* the native object is allocated and not deallocated
    owners,      \* who holds a retain on the native object
    objc,        \* Stepper.objc: Nil, or a reference to the native object
    handler,     \* Stepper.handler: Nil (None), or the stored trampoline
    pending,     \* set_action's local `handler`, before it is stored
    allocd,      \* trampolines allocated so far
    freeCount,   \* how many times each trampoline has been released
    section,     \* the ObjcProperty accessor in progress: none, get, with_mut
    targetBy,    \* who sent the last setTarget: none, facade, closure
    closureSends, \* messages sent by callers' closures so far
    lastSend,    \* the message the last step sent to the native object
    lastOp       \* the operation the last step belongs to, and its outcome

vars == <<pc, autolayout, view, native, nativeAlive, owners, objc, handler, pending,
          allocd, freeCount, section, targetBy, closureSends, lastSend,
          lastOp>>

\* Trampolines that are allocated and not released.
Live == {t \in allocd : freeCount[t] = 0}

\* match wraps { true => YES, false => NO }
BoolToObjc(wraps) == IF wraps THEN YES ELSE NO

Send(sel, arg, mutating) ==
    [sel |-> sel, arg |-> arg, section |-> section, mutating |-> mutating]

SendIn(sec, sel, arg, mutating) ==
    [sel |-> sel, arg |-> arg, section |-> sec, mutating |-> mutating]

Op(op, arg, res) == [op |-> op, arg |-> arg, res |-> res]

\* Releasing one retain: the object is deallocated with its last owner.
Release(who) ==
    /\ owners' = owners \ {who}
    /\ nativeAlive' = (nativeAlive /\ owners \ {who} # {})
    /\ native' = IF nativeAlive /\ owners \ {who} = {}
                   THEN NativeInit(RectZero) ELSE native

\* The messages a caller's closure can send to the native object: the four
\* properties and the value, the frame and the autolayout flag, a target
\* (nil, a pointer to a trampoline read earlier and possibly released since,
\* or another object) and an action of its own.  (retain and release are
\* ClosureRetain and ClosureRelease.)
ClosureMsgs ==
    [sel : {"setMaxValue:", "setMinValue:", "setIncrement:",
            "setDoubleValue:"}, arg : Values]
      \cup [sel : {"setValueWraps:",
                   "setTranslatesAutoresizingMaskIntoConstraints:"},
            arg : {YES, NO}]
      \cup [sel : {"setFrame:"}, arg : {RectZero, RectOther}]
      \cup [sel : {"setTarget:"},
            arg : {Nil} \cup {{t} : t \in allocd \cup {0}}]
      \cup [sel : {"setAction:"}, arg : {Nil, Perform, Other}]

Init ==
    /\ pc = "start"
    /\ autolayout \in BOOLEAN
    /\ view = Nil
    /\ native = NativeInit(RectZero)
    /\ nativeAlive = FALSE
    /\ owners = {}
    /\ objc = Nil
    /\ handler = Nil
    /\ pending = Nil
    /\ allocd = {}
    /\ freeCount = [t \in Tramps |-> 0]
    /\ section = "none"
    /\ targetBy = "none"
    /\ closureSends = 0
    /\ lastSend = NoSend
    /\ lastOp = NoOp

\* ------------------------------------------------ the native object's side

\* What the NSStepper does with a message sent to it.
NativeRecv(n, sel, arg) ==
    CASE sel = "setTranslatesAutoresizingMaskIntoConstraints:"
                                -> [n EXCEPT !.translates = arg]
      [] sel = "setMaxValue:"   -> [n EXCEPT !.maxValue = arg]
      [] sel = "setMinValue:"   -> [n EXCEPT !.minValue = arg]
      [] sel = "setIncrement:"  -> [n EXCEPT !.increment = arg]
      [] sel = "setValueWraps:" -> [n EXCEPT !.valueWraps = arg]
      [] sel = "setTarget:"     -> [n EXCEPT !.target = arg]
      [] sel = "setAction:"     -> [n EXCEPT !.action = arg]
      [] sel = "setDoubleValue:" -> [n EXCEPT !.value = arg]
      [] sel = "setFrame:"      -> [n EXCEPT !.frame = arg]
      [] OTHER                  -> n

\* A message sent through the facade's handle: nil takes any message and
\* does nothing.
Deliver(sel, arg) ==
    IF nativeAlive THEN NativeRecv(native, sel, arg) ELSE native

\* The handle can be used: it is nil, or the object it points to exists.
HandleUsable == objc = Nil \/ nativeAlive

\* What dispatching an event can do.  Without a target or an action nothing
\* runs; a live trampoline runs its closure when sent its own selector, and
\* does not respond to another one; a released one is a dangling reference:
\* it reads as nil if the toolkit holds it weakly, and else anything may
\* happen; another object gets the message itself.
EventOutcomes ==
    IF native.target = Nil \/ native.action = Nil THEN {"ignored"}
    ELSE IF native.target \subseteq Live
      THEN IF native.action = Perform THEN {"invoked"}
           ELSE {"ignored", "crashed"}
    ELSE IF native.target \subseteq allocd
      THEN {"ignored", "invoked", "crashed"}
    ELSE {"elsewhere"}

\* ------------------------------------------------------------ Stepper::new

\* What ObjcProperty::retain can do with the pointer new hands it.  A nil
\* pointer (a failed allocation) is fatal, or is stored as it is; an object
\* gets the facade's reference next to the one alloc/initWithFrame: gave, or
\* the facade takes that one over.
RetainModes == {"abort", "nil", "retained", "adopted"}
RetainOutcomes(v) ==
    IF v = Nil THEN {"abort", "nil"} ELSE {"retained", "adopted"}

\* msg_send![register_class(), alloc]; msg_send![alloc, initWithFrame:zero].
\* When the toolkit cannot allocate, both give nil; new does not check.
NewAlloc(ok) ==
    /\ pc = "start"
    /\ pc' = "new_layout"
    /\ view' = IF ok THEN {"NSStepper"} ELSE Nil
    /\ native' = NativeInit(RectZero)
    /\ nativeAlive' = ok
    /\ owners' = IF ok THEN {"new"} ELSE {}
    /\ lastSend' = Send("initWithFrame:", RectZero, FALSE)
    /\ lastOp' = Op("new", Nil, "running")
    /\ UNCHANGED <<autolayout, objc, handler, pending, allocd, freeCount,
                   section, targetBy, closureSends>>

\* Mutant of NewLayout: the autolayout opt-out is never sent.
NewLayout_Skip ==
    /\ pc = "new_layout"
    /\ pc' = "new_retain"
    /\ lastSend' = NoSend
    /\ lastOp' = Op("new", Nil, "running")
    /\ UNCHANGED <<autolayout, view, native, nativeAlive, owners, objc,
                   handler, pending, allocd, freeCount, section, targetBy,
                   closureSends>>

\* #[cfg(feature = "autolayout")]
\* msg_send![stepper, setTranslatesAutoresizingMaskIntoConstraints: NO]
\* (a message to nil does nothing).
NewLayout ==
    /\ pc = "new_layout"
    /\ pc' = "new_retain"
    /\ IF autolayout
         THEN /\ native' = IF view = Nil THEN native
                           ELSE NativeRecv(native,
                    "setTranslatesAutoresizingMaskIntoConstraints:", NO)
              /\ lastSend' = Send(
                    "setTranslatesAutoresizingMaskIntoConstraints:", NO, TRUE)
         ELSE /\ native' = native
              /\ lastSend' = NoSend
    /\ lastOp' = Op("new", Nil, "running")
    /\ UNCHANGED <<autolayout, view, nativeAlive, owners, objc, handler,
                   pending, allocd, freeCount, section, targetBy, closureSends>>

\* Stepper { handler: None, ..., objc: ObjcProperty::retain(view) }
\* new hands retain the pointer unchecked and stores what retain gives.
NewReturn(outcome) ==
    /\ pc = "new_retain"
    /\ outcome \in RetainOutcomes(view)
    /\ IF outcome = "abort"
         THEN /\ pc' = "aborted"
              /\ lastOp' = Op("new", Nil, "abort")
              /\ UNCHANGED <<handler, objc, owners>>
         ELSE /\ pc' = "idle"
              /\ handler' = Nil
              /\ objc' = view
              /\ owners' = CASE outcome = "retained" -> owners \cup {"facade"}
                              [] outcome = "adopted"
                                   -> (owners \ {"new"}) \cup {"facade"}
                              [] OTHER -> owners
              /\ lastOp' = Op("new", Nil, "returned")
    /\ lastSend' = NoSend
    /\ UNCHANGED <<autolayout, view, native, nativeAlive, pending, allocd,
                   freeCount, section, targetBy, closureSends>>

\* ----------------------------------------------------- Stepper::set_action

\* let this: Id<Object, Shared> = self.objc.get(|obj| msg_send_id![obj, self]);
\* a retained reference to the native object, taken inside get.  From a nil
\* handle the message returns nil, which msg_send_id! does not turn into an
\* Id: it panics.
SetActionGet ==
    /\ pc = "idle"
    /\ HandleUsable
    /\ Cardinality(allocd) < MaxTramp
    /\ IF objc = Nil
         THEN /\ lastOp' = Op("set_action", Nil, "panic")
              /\ UNCHANGED <<pc, owners>>
         ELSE /\ pc' = "sa_alloc"
              /\ owners' = owners \cup {"this"}
              /\ lastOp' = Op("set_action", Nil, "running")
    /\ lastSend' = SendIn("get", "self", Nil, FALSE)
    /\ UNCHANGED <<autolayout, view, native, nativeAlive, objc, handler,
                   pending, allocd, freeCount, section, targetBy, closureSends>>

\* TargetActionHandler::new(&this, action): the trampoline is allocated ...
SetActionAlloc ==
    /\ pc = "sa_alloc"
    /\ pc' = "sa_action"
    /\ LET t == Cardinality(allocd) + 1 IN
         /\ allocd' = allocd \cup {t}
         /\ pending' = {t}
    /\ lastSend' = NoSend
    /\ lastOp' = Op("set_action", Nil, "running")
    /\ UNCHANGED <<autolayout, view, native, nativeAlive, owners, objc,
                   handler, freeCount, section, targetBy, closureSends>>

\* ... the control's action becomes the trampoline's selector ...
SetActionWireAction ==
    /\ pc = "sa_action"
    /\ pc' = "sa_target"
    /\ native' = NativeRecv(native, "setAction:", Perform)
    /\ lastSend' = Send("setAction:", Perform, TRUE)
    /\ lastOp' = Op("set_action", Nil, "running")
    /\ UNCHANGED <<autolayout, view, nativeAlive, owners, objc, handler,
                   pending, allocd, freeCount, section, targetBy, closureSends>>

\* ... and its target the trampoline.
SetActionWireTarget ==
    /\ pc = "sa_target"
    /\ pc' = "sa_store"
    /\ native' = NativeRecv(native, "setTarget:", pending)
    /\ targetBy' = "facade"
    /\ lastSend' = Send("setTarget:", pending, TRUE)
    /\ lastOp' = Op("set_action", Nil, "running")
    /\ UNCHANGED <<autolayout, view, nativeAlive, owners, objc, handler,
                   pending, allocd, freeCount, section, closureSends>>

\* Mutant of SetActionStore: the replaced trampoline is forgotten, not dropped.
SetActionStore_Leak ==
    /\ pc = "sa_store"
    /\ pc' = "sa_this"
    /\ handler' = pending
    /\ pending' = Nil
    /\ lastSend' = NoSend
    /\ lastOp' = Op("set_action", Nil, "running")
    /\ UNCHANGED <<autolayout, view, native, nativeAlive, owners, objc,
                   allocd, freeCount, section, targetBy, closureSends>>

\* self.handler = Some(handler): the assignment drops the value it replaces.
SetActionStore ==
    /\ pc = "sa_store"
    /\ pc' = "sa_this"
    /\ freeCount' = [t \in Tramps |->
                        IF t \in handler THEN freeCount[t] + 1 ELSE freeCount[t]]
    /\ handler' = pending
    /\ pending' = Nil
    /\ lastSend' = NoSend
    /\ lastOp' = Op("set_action", Nil, "running")
    /\ UNCHANGED <<autolayout, view, native, nativeAlive, owners, objc,
                   allocd, section, targetBy, closureSends>>

\* End of scope: the local `this` is released.
SetActionReturn ==
    /\ pc = "sa_this"
    /\ pc' = "idle"
    /\ Release("this")
    /\ lastSend' = NoSend
    /\ lastOp' = Op("set_action", Nil, "returned")
    /\ UNCHANGED <<autolayout, view, objc, handler, pending, allocd,
                   freeCount, section, targetBy, closureSends>>

\* ----------------------------------------------------- the property setters

\* self.objc.with_mut(|obj| msg_send![obj, <sel> <arg>]), called as op(value).
Forward(op, value, sel, arg) ==
    /\ pc = "idle"
    /\ HandleUsable
    /\ native' = Deliver(sel, arg)
    /\ lastSend' = SendIn("with_mut", sel, arg, TRUE)
    /\ lastOp' = Op(op, value, "returned")
    /\ UNCHANGED <<pc, autolayout, view, nativeAlive, owners, objc, handler,
                   pending, allocd, freeCount, section, targetBy, closureSends>>

SetMaxValue(value) == Forward("set_max_value", value, "setMaxValue:", value)

\* Mutant of SetMinValue: the value goes to the maximum instead.
SetMinValue_Wrong(value) ==
    Forward("set_min_value", value, "setMaxValue:", value)

SetMinValue(value) == Forward("set_min_value", value, "setMinValue:", value)

SetIncrement(value) == Forward("set_increment", value, "setIncrement:", value)

\* Mutant of SetWraps: the flag is also taken as a new callback target.
SetWraps_Rewire(wraps) ==
    /\ pc = "idle"
    /\ HandleUsable
    /\ native' = IF nativeAlive
                   THEN NativeRecv(NativeRecv(native, "setValueWraps:",
                                   BoolToObjc(wraps)), "setTarget:", Nil)
                   ELSE native
    /\ lastSend' = SendIn("with_mut", "setValueWraps:", BoolToObjc(wraps), TRUE)
    /\ lastOp' = Op("set_wraps", wraps, "returned")
    /\ UNCHANGED <<pc, autolayout, view, nativeAlive, owners, objc, handler,
                   pending, allocd, freeCount, section, targetBy, closureSends>>

SetWraps(wraps) ==
    Forward("set_wraps", wraps, "setValueWraps:", BoolToObjc(wraps))

\* self.objc.get(|obj| msg_send![obj, floatValue])
GetSelectedValue ==
    /\ pc = "idle"
    /\ HandleUsable
    /\ lastSend' = SendIn("get", "floatValue", Nil, FALSE)
    /\ lastOp' = Op("get_selected_value", Nil, native.value)
    /\ UNCHANGED <<pc, autolayout, view, native, nativeAlive, owners, objc,
                   handler, pending, allocd, freeCount, section, targetBy,
                   closureSends>>

\* -------------------------------------------------------------- ObjcAccess

\* with_backing_obj_mut(handler): self.objc.with_mut(handler), for Stepper and
\* for &Stepper: the caller's closure starts inside with_mut.  (The pub field
\* objc gives a caller the same two accessors.)
WithBackingObjMut(variant) ==
    /\ pc = "idle"
    /\ pc' = "closure"
    /\ section' = "with_mut"
    /\ lastSend' = NoSend
    /\ lastOp' = Op("with_backing_obj_mut", Nil, "running")
    /\ UNCHANGED <<autolayout, view, native, nativeAlive, owners, objc,
                   handler, pending, allocd, freeCount, targetBy, closureSends>>

\* get_from_backing_obj(handler): self.objc.get(handler), for Stepper and for
\* &Stepper: the caller's closure starts inside get.
GetFromBackingObj(variant) ==
    /\ pc = "idle"
    /\ pc' = "closure"
    /\ section' = "get"
    /\ lastSend' = NoSend
    /\ lastOp' = Op("get_from_backing_obj", Nil, "running")
    /\ UNCHANGED <<autolayout, view, native, nativeAlive, owners, objc,
                   handler, pending, allocd, freeCount, targetBy, closureSends>>

\* handler(obj): the closure sends msg to the native object; it may send any
\* number of messages, in either accessor.
ClosureSend(msg) ==
    /\ pc = "closure"
    /\ closureSends < MaxClosureSends
    /\ closureSends' = closureSends + 1
    /\ HandleUsable
    /\ native' = Deliver(msg.sel, msg.arg)
    /\ targetBy' = IF msg.sel = "setTarget:" /\ nativeAlive
                     THEN "closure" ELSE targetBy
    /\ lastSend' = Send(msg.sel, msg.arg, TRUE)
    /\ lastOp' = Op(lastOp.op, Nil, "running")
    /\ UNCHANGED <<pc, autolayout, view, nativeAlive, owners, objc, handler,
                   pending, allocd, freeCount, section>>

\* handler(obj): the closure reads a property of the native object.
ClosureRead(sel) ==
    /\ pc = "closure"
    /\ HandleUsable
    /\ lastSend' = Send(sel, Nil, FALSE)
    /\ lastOp' = Op(lastOp.op, Nil, "running")
    /\ UNCHANGED <<pc, autolayout, view, native, nativeAlive, owners, objc,
                   handler, pending, allocd, freeCount, section, targetBy,
                   closureSends>>

\* handler(obj): the closure retains the object, for its caller to keep.
ClosureRetain ==
    /\ pc = "closure"
    /\ closureSends < MaxClosureSends
    /\ closureSends' = closureSends + 1
    /\ nativeAlive
    /\ "external" \notin owners
    /\ owners' = owners \cup {"external"}
    /\ lastSend' = Send("retain", Nil, TRUE)
    /\ lastOp' = Op(lastOp.op, Nil, "running")
    /\ UNCHANGED <<pc, autolayout, view, native, nativeAlive, objc, handler,
                   pending, allocd, freeCount, section, targetBy>>

\* handler(obj): the closure releases the object: a reference its caller
\* holds, else the one alloc/initWithFrame: left, else the facade's own, and
\* then the object is deallocated under the facade.
ClosureRelease ==
    /\ pc = "closure"
    /\ closureSends < MaxClosureSends
    /\ closureSends' = closureSends + 1
    /\ nativeAlive
    /\ Release(IF "external" \in owners THEN "external"
               ELSE IF "new" \in owners THEN "new" ELSE "facade")
    /\ lastSend' = Send("release", Nil, TRUE)
    /\ lastOp' = Op(lastOp.op, Nil, "running")
    /\ UNCHANGED <<pc, autolayout, view, objc, handler, pending, allocd,
                   freeCount, section, targetBy>>

\* The handle points to a deallocated object and the facade or a closure
\* uses it: the behaviour is undefined from here on, and is not followed.
UseAfterFree ==
    /\ pc \in {"idle", "closure"}
    /\ ~HandleUsable
    /\ pc' = "undefined"
    /\ lastSend' = NoSend
    /\ lastOp' = Op("use_after_free", Nil, "undefined")
    /\ UNCHANGED <<autolayout, view, native, nativeAlive, owners, objc,
                   handler, pending, allocd, freeCount, section, targetBy,
                   closureSends>>

\* The closure returns, and the accessor with it.
ClosureReturn ==
    /\ pc = "closure"
    /\ pc' = "idle"
    /\ section' = "none"
    /\ lastSend' = NoSend
    /\ lastOp' = Op(lastOp.op, Nil, "returned")
    /\ UNCHANGED <<autolayout, view, native, nativeAlive, owners, objc,
                   handler, pending, allocd, freeCount, targetBy, closureSends>>

\* The closure panics (a call of add_subview in it does): the accessor is left
\* by unwinding, with the messages sent so far in effect.
ClosurePanic ==
    /\ pc = "closure"
    /\ pc' = "idle"
    /\ section' = "none"
    /\ lastSend' = NoSend
    /\ lastOp' = Op(lastOp.op, Nil, "panic")
    /\ UNCHANGED <<autolayout, view, native, nativeAlive, owners, objc,
                   handler, pending, allocd, freeCount, targetBy, closureSends>>

\* ------------------------------------------------------ Layout::add_subview

\* Mutant of AddSubview: the &Stepper implementation forwards the child to the
\* native view and returns, as a container view would.
AddSubview_Forward(variant, child) ==
    /\ pc = "idle"
    /\ IF variant = "&Stepper"
         THEN /\ lastSend' = SendIn("with_mut", "addSubview:", child, TRUE)
              /\ lastOp' = Op("add_subview", <<variant, child>>, "returned")
         ELSE /\ lastOp' = Op("add_subview", <<variant, child>>, "panic")
              /\ lastSend' = NoSend
    /\ UNCHANGED <<pc, autolayout, view, native, nativeAlive, owners, objc,
                   handler, pending, allocd, freeCount, section, targetBy,
                   closureSends>>

\* panic!("Tried to add a subview to a Stepper. ..."), in both
\* `impl Layout for Stepper` and `impl Layout for &Stepper`.
AddSubview(variant, child) ==
    /\ pc = "idle"
    /\ lastSend' = NoSend
    /\ lastOp' = Op("add_subview", <<variant, child>>, "panic")
    /\ UNCHANGED <<pc, autolayout, view, native, nativeAlive, owners, objc,
                   handler, pending, allocd, freeCount, section, targetBy,
                   closureSends>>

\* -------------------------------------------------------------------- Drop

\* Mutant of DropSetTarget: Drop::drop clears nothing, the fields are dropped
\* at once.
DropSetTarget_NoClear ==
    /\ pc = "idle"
    /\ HandleUsable
    /\ pc' = "drop_objc"
    /\ lastSend' = NoSend
    /\ lastOp' = Op("drop", Nil, "running")
    /\ UNCHANGED <<autolayout, view, native, nativeAlive, owners, objc,
                   handler, pending, allocd, freeCount, section, targetBy,
                   closureSends>>

\* Drop::drop, inside with_mut: msg_send![obj, setTarget: nil] ...
DropSetTarget ==
    /\ pc = "idle"
    /\ HandleUsable
    /\ pc' = "drop_action"
    /\ section' = "with_mut"
    /\ native' = Deliver("setTarget:", Nil)
    /\ targetBy' = IF nativeAlive THEN "facade" ELSE targetBy
    /\ lastSend' = SendIn("with_mut", "setTarget:", Nil, TRUE)
    /\ lastOp' = Op("drop", Nil, "running")
    /\ UNCHANGED <<autolayout, view, nativeAlive, owners, objc, handler,
                   pending, allocd, freeCount, closureSends>>

\* Mutant of DropSetAction: the action is left in place.
DropSetAction_Skip ==
    /\ pc = "drop_action"
    /\ pc' = "drop_objc"
    /\ section' = "none"
    /\ lastSend' = NoSend
    /\ lastOp' = Op("drop", Nil, "running")
    /\ UNCHANGED <<autolayout, view, native, nativeAlive, owners, objc,
                   handler, pending, allocd, freeCount, targetBy, closureSends>>

\* ... msg_send![obj, setAction: nil], and with_mut returns.
DropSetAction ==
    /\ pc = "drop_action"
    /\ pc' = "drop_objc"
    /\ section' = "none"
    /\ native' = Deliver("setAction:", Nil)
    /\ lastSend' = Send("setAction:", Nil, TRUE)
    /\ lastOp' = Op("drop", Nil, "running")
    /\ UNCHANGED <<autolayout, view, nativeAlive, owners, objc, handler,
                   pending, allocd, freeCount, targetBy, closureSends>>

\* After Drop::drop the fields are dropped in declaration order: objc first,
DropFieldObjc ==
    /\ pc = "drop_objc"
    /\ pc' = "drop_handler"
    /\ objc' = Nil
    /\ Release("facade")
    /\ lastSend' = NoSend
    /\ lastOp' = Op("drop", Nil, "running")
    /\ UNCHANGED <<autolayout, view, handler, pending, allocd, freeCount,
                   section, targetBy, closureSends>>

\* Mutant of DropFieldHandler: the stored trampoline is forgotten.
DropFieldHandler_Leak ==
    /\ pc = "drop_handler"
    /\ pc' = "dropped"
    /\ handler' = Nil
    /\ lastSend' = NoSend
    /\ lastOp' = Op("drop", Nil, "returned")
    /\ UNCHANGED <<autolayout, view, native, nativeAlive, owners, objc,
                   pending, allocd, freeCount, section, targetBy, closureSends>>

\* then handler: the stored trampoline, if any, is released.
DropFieldHandler ==
    /\ pc = "drop_handler"
    /\ pc' = "dropped"
    /\ freeCount' = [t \in Tramps |->
                        IF t \in handler THEN freeCount[t] + 1 ELSE freeCount[t]]
    /\ handler' = Nil
    /\ lastSend' = NoSend
    /\ lastOp' = Op("drop", Nil, "returned")
    /\ UNCHANGED <<autolayout, view, native, nativeAlive, owners, objc,
                   pending, allocd, section, targetBy, closureSends>>

\* --------------------------------------------------------- the environment

\* The user clicks the control: the toolkit updates the value and, on the UI
\* thread between two operations of the facade, sends the action to the
\* target.  A crash ends the program.
NativeEvent(v, outcome) ==
    /\ pc \in {"idle", "dropped"}
    /\ nativeAlive
    /\ outcome \in EventOutcomes
    /\ native' = [native EXCEPT !.value = v]
    /\ pc' = IF outcome = "crashed" THEN "aborted" ELSE pc
    /\ lastSend' = NoSend
    /\ lastOp' = Op("event", Nil, outcome)
    /\ UNCHANGED <<autolayout, view, nativeAlive, owners, objc, handler,
                   pending, allocd, freeCount, section, targetBy, closureSends>>

\* Another owner of the shared handle (a superview, say) retains the object,
ExternalRetain ==
    /\ pc = "idle"
    /\ nativeAlive
    /\ "external" \notin owners
    /\ owners' = owners \cup {"external"}
    /\ lastSend' = NoSend
    /\ lastOp' = Op("external", Nil, "retain")
    /\ UNCHANGED <<pc, autolayout, view, native, nativeAlive, objc, handler,
                   pending, allocd, freeCount, section, targetBy, closureSends>>

\* and releases it, possibly after the facade is gone.
ExternalRelease ==
    /\ pc \in {"idle", "dropped"}
    /\ "external" \in owners
    /\ Release("external")
    /\ lastSend' = NoSend
    /\ lastOp' = Op("external", Nil, "release")
    /\ UNCHANGED <<pc, autolayout, view, objc, handler, pending, allocd,
                   freeCount, section, targetBy, closureSends>>

Outcomes == {"ignored", "invoked", "crashed", "elsewhere"}

Next ==
    \/ \E ok \in BOOLEAN : NewAlloc(ok)
    \/ NewLayout
    \/ \E outcome \in RetainModes : NewReturn(outcome)
    \/ SetActionGet
    \/ SetActionAlloc
    \/ SetActionWireAction
    \/ SetActionWireTarget
    \/ SetActionStore
    \/ SetActionReturn
    \/ \E v \in Values : SetMaxValue(v)
    \/ \E v \in Values : SetMinValue(v)
    \/ \E v \in Values : SetIncrement(v)
    \/ \E b \in BOOLEAN : SetWraps(b)
    \/ GetSelectedValue
    \/ \E variant \in Variants : WithBackingObjMut(variant)
    \/ \E variant \in Variants : GetFromBackingObj(variant)
    \/ \E msg \in ClosureMsgs : ClosureSend(msg)
    \/ \E sel \in ClosureReads : ClosureRead(sel)
    \/ ClosureRetain
    \/ ClosureRelease
    \/ UseAfterFree
    \/ ClosureReturn
    \/ ClosurePanic
    \/ \E variant \in Variants, child \in Children : AddSubview(variant, child)
    \/ DropSetTarget
    \/ DropSetAction
    \/ DropFieldObjc
    \/ DropFieldHandler
    \/ \E v \in Values, outcome \in Outcomes : NativeEvent(v, outcome)
    \/ ExternalRetain
    \/ ExternalRelease

Spec == Init /\ [][Next]_vars

TypeOK ==
    /\ handler \subseteq Tramps
    /\ pending \subseteq Tramps
    /\ allocd \subseteq Tramps
    /\ native.target \subseteq Tramps \cup {0}
    /\ native.action \in {Nil, Perform, Other}
    /\ native.frame \in {RectZero, RectOther}
    /\ objc \in {Nil, view}
    /\ nativeAlive => view # Nil
    /\ nativeAlive = (owners # {})
    /\ closureSends \in 0..MaxClosureSends
    /\ nativeAlive \/ native = NativeInit(RectZero)
    /\ section \in {"none", "get", "with_mut"}
    /\ targetBy \in {"none", "facade", "closure"}

\* ------------------------------------------------------------------ claims

Setters == {"set_max_value", "set_min_value", "set_increment", "set_wraps"}

\* The last step was the return (or the panic) of op.
Ended(op, res) == lastOp.op = op /\ lastOp.res = res

\* The last message was sel, sent inside with_mut with the argument arg.
Forwarded(sel, arg) ==
    /\ lastSend.sel = sel
    /\ lastSend.section = "with_mut"
    /\ lastSend.arg = arg

\* C1: in Drop, the step that releases the facade's reference to the native
\* handle and the step that frees the stored trampoline both start in a state
\* where the native target and action are already nil.
C1_DropClearsBeforeRelease ==
    [][(/\ lastOp'.op = "drop"
        /\ \/ ("facade" \in owners /\ "facade" \notin owners')
           \/ (\E t \in Tramps : freeCount'[t] > freeCount[t]))
       => (native.target = Nil /\ native.action = Nil)]_vars

\* C1 witness: a Stepper on which set_action was called twice is being
\* destroyed; its handle is released, its trampoline is about to be freed.
C1_Witness ==
    /\ pc = "drop_handler"
    /\ Cardinality(allocd) = 2
    /\ handler # Nil
    /\ "facade" \notin owners
    /\ native.target = Nil
    /\ native.action = Nil

\* C2: while the native object exists, and unless a caller's closure (an
\* operation the claim does not name) sent the last setTarget:, the native
\* target is nil or a trampoline that has not been released.
C2_TargetNeverDangles ==
    (nativeAlive /\ targetBy # "closure" /\ native.target # Nil)
      => native.target \subseteq Live

\* C2 witness: inside a replacing set_action, after the old trampoline was
\* released: the native target is the new one.
C2_Witness ==
    /\ pc = "sa_this"
    /\ Cardinality(allocd) = 2
    /\ freeCount[1] = 1
    /\ native.target = {2}
    /\ targetBy = "facade"
    /\ nativeAlive

\* C3: no trampoline is released twice; when set_action returns, the stored
\* trampoline is the only one not released and is the native target, with the
\* trampoline's selector as action; after destruction every trampoline ever
\* allocated has been released exactly once.
C3_ReplacedReleasedOnce ==
    /\ \A t \in Tramps : freeCount[t] <= 1
    /\ Ended("set_action", "returned")
         => /\ handler # Nil
            /\ Live = handler
            /\ native.target = handler
            /\ native.action = Perform
            /\ \A t \in allocd \ handler : freeCount[t] = 1
    /\ pc = "dropped" => \A t \in allocd : freeCount[t] = 1

\* C3 witness: the second set_action has just returned.
C3_Witness ==
    /\ Ended("set_action", "returned")
    /\ allocd = {1, 2}
    /\ freeCount[1] = 1
    /\ handler = {2}

\* C4 as claimed: never more than one trampoline allocated and not released.
C4_AtMostOneLiveAlways == Cardinality(Live) <= 1

\* C4 as amended: outside set_action the only trampoline not released is the
\* stored one; inside set_action, from the construction of the new
\* TargetActionHandler to its store into self.handler, the stored one and the
\* new one are both not released, and no other is.
C4_AtMostOneLiveBetweenCalls ==
    /\ pc \in {"sa_action", "sa_target", "sa_store"}
         => (Live = handler \cup pending /\ pending # Nil)
    /\ pc \notin {"sa_action", "sa_target", "sa_store"}
         => (Live = handler /\ pending = Nil)
    /\ Cardinality(handler) <= 1
    /\ Cardinality(pending) <= 1

\* C4 witness: a replacing set_action before the store: two are live.
C4_Witness ==
    /\ pc = "sa_store"
    /\ handler = {1}
    /\ pending = {2}
    /\ Live = {1, 2}

\* C5: every add_subview step ends in the panic, sends no message and leaves
\* the native object and the facade's fields as they were.
C5_AddSubviewPanics ==
    [][lastOp'.op = "add_subview"
       => /\ lastOp'.res = "panic"
          /\ lastSend'.sel = "none"
          /\ UNCHANGED <<native, nativeAlive, owners, objc, handler, allocd,
                         freeCount>>]_vars

\* C5 witness: add_subview through &Stepper on a Stepper with a trampoline
\* installed and a property set.
C5_Witness ==
    /\ Ended("add_subview", "panic")
    /\ lastOp.arg = <<"&Stepper", "view">>
    /\ handler # Nil
    /\ native.maxValue = 100

C8_MutationsInsideWithMut ==
    /\ (/\ lastOp.op \in Setters \cup {"set_action", "get_selected_value", "drop"}
        /\ lastSend.mutating)
         => lastSend.section = "with_mut"
    /\ pc \in {"idle", "dropped"} => section = "none"

\* C9: an event that ran a closure of the Stepper (or ran into a released
\* trampoline) was dispatched while the Stepper was live and no operation in
\* progress: none dispatched once destruction has begun does.
C9_NoCallbackAfterDrop ==
    [][(lastOp'.op = "event" /\ lastOp'.res \in {"invoked", "crashed"})
       => pc = "idle"]_vars

\* C9 witness: the Stepper had a callback and is destroyed, the native object
\* lives on with another owner, and an event dispatched then invoked nothing.
C9_Witness ==
    /\ pc = "dropped"
    /\ allocd # {}
    /\ nativeAlive
    /\ "external" \in owners
    /\ lastOp.op = "event"
    /\ lastOp.res = "ignored"

\* C10: a step of a property setter or of get_selected_value leaves
\* self.handler, the native target and action and the trampolines as they
\* were; a setter leaves the three properties of the other setters as they
\* were; get_selected_value leaves the whole native object as it was.
C10_SettersFrame ==
    [][lastOp'.op \in Setters \cup {"get_selected_value"}
       => /\ UNCHANGED <<handler, allocd, freeCount, owners, nativeAlive>>
          /\ native'.target = native.target
          /\ native'.action = native.action
          /\ lastOp'.op # "set_max_value" => native'.maxValue = native.maxValue
          /\ lastOp'.op # "set_min_value" => native'.minValue = native.minValue
          /\ lastOp'.op # "set_increment" => native'.increment = native.increment
          /\ lastOp'.op # "set_wraps" => native'.valueWraps = native.valueWraps
          /\ lastOp'.op = "get_selected_value" => native' = native]_vars

\* C10 witness: every setter and the getter were called after set_action and
\* the callback is still installed.
C10_Witness ==
    /\ lastOp.op = "get_selected_value"
    /\ handler # Nil
    /\ native.target = handler
    /\ native.action = Perform
    /\ native.maxValue = 100
    /\ native.minValue = 100
    /\ native.increment = 100
    /\ native.valueWraps = NO

====
